---- MODULE Spec2Model ----
(***************************************************************************)
(* The reconciliation loop of the Jenkins operator:                        *)
(*   pkg/controller/jenkins/jenkins_controller.go                          *)
(*   pkg/controller/jenkins/configuration/base/validate.go                 *)
(*   pkg/controller/jenkins/configuration/user/validate.go                 *)
(*   pkg/controller/jenkins/configuration/user/reconcile.go                *)
(* One reconcile pass is a sequence of steps, one per call the pass makes  *)
(* to a collaborator (API server, base provisioner, secret store, seed-job *)
(* runner, groovy runner, event recorder); the API server object can be    *)
(* edited or deleted between any two steps.                                *)
(***************************************************************************)
EXTENDS Integers, Sequences, FiniteSets, TLC

\* ------------------------------------------------------------------ bounds
\* number of edits of the Spec by the user after creation
MaxEdits == 1
\* the success-notification counters saturate at MaxEvents
MaxEvents == 2
\* the longest list of seed-job declarations of the validation inputs
MaxSeedJobs == 2
\* the time from which no collaborator fails or reports not-done any more
Horizon == 2
\* the longest list of dependents of a root of the plugin inputs
MaxDependents == 1

\* --------------------------------------------------------------- constants
\* time.Second * 10, the fixed requeue delay of the user phase (in seconds)
RequeueDelay == 10
\* a nil *metav1.Time in Status
NoTime == 0

NoError == "nil"
ErrConflict == "Conflict"
ErrNotFound == "NotFound"
ErrInfra == "Error"
ErrorBuildFailed == "ErrorBuildFailed"
ErrorUnrecoverableBuildFailed == "ErrorUnrecoverableBuildFailed"

\* event.Reason values
reasonBaseConfigurationSuccess == "BaseConfigurationSuccess"
reasonUserConfigurationSuccess == "BaseConfigurationFailure"
reasonCRValidationFailure == "CRValidationFailure"

\* reconcile.Result{}
ZeroResult == [Requeue |-> FALSE, RequeueAfter |-> 0]

\* ------------------------------------------------------------ Spec values
\* A plugin token "name:version" is held as its fields split at ":",
\* <<"name", "version">>; a token without ":" is <<"name">>.
EmptyPlugins == [t \in {} |-> <<>>]

\* constants.DefaultJenkinsMasterImage
DefaultJenkinsMasterImage == "jenkins/jenkins:lts"

\* plugins.BasePlugins()
BasePlugins ==
    (<<"kubernetes", "1.13.8">> :> << <<"credentials", "2.1.18">> >>)
    @@ (<<"job-dsl", "1.70">> :> << <<"script-security", "1.49">> >>)

\* map[string][]string{"simple-theme-plugin:0.5.1": {}}
DefaultUserPlugins == (<<"simple-theme-plugin", "0.5.1">> :> <<>>)

EmptyResourceList == [k \in {} |-> ""]
NoResources == [Requests |-> EmptyResourceList, Limits |-> EmptyResourceList]

\* the corev1.ResourceRequirements literal of setDefaults
DefaultResources ==
    [Requests |-> ("cpu" :> "1" @@ "memory" :> "500Mi"),
     Limits |-> ("cpu" :> "1500m" @@ "memory" :> "3Gi")]

\* a nil *SecretKeySelector
NilSecretKeyRef == [IsNil |-> TRUE, Name |-> "", Key |-> ""]
SecretKeyRef(name, key) == [IsNil |-> FALSE, Name |-> name, Key |-> key]

\* setDefaults without the defaulting of the image
setDefaultsFieldsKeepImage(spec) ==
    LET operatorPluginsUnset == Cardinality(DOMAIN spec.OperatorPlugins) = 0
        pluginsUnset == Cardinality(DOMAIN spec.Plugins) = 0
        resourcesUnset == DOMAIN spec.Resources.Requests /= {"cpu", "memory"}
                          \/ DOMAIN spec.Resources.Limits /= {"cpu", "memory"}
    IN  [spec |->
            [Image |-> spec.Image,
             OperatorPlugins |-> IF operatorPluginsUnset THEN BasePlugins
                                 ELSE spec.OperatorPlugins,
             Plugins |-> IF pluginsUnset THEN DefaultUserPlugins ELSE spec.Plugins,
             Resources |-> IF resourcesUnset THEN DefaultResources ELSE spec.Resources,
             SeedJobs |-> spec.SeedJobs],
         changed |-> operatorPluginsUnset \/ pluginsUnset \/ resourcesUnset]

\* ---------------------------------------------------------- setDefaults
\* the field assignments of setDefaults, without the Update
setDefaultsFields(spec) ==
    LET imageUnset == spec.Image = ""
        operatorPluginsUnset == Cardinality(DOMAIN spec.OperatorPlugins) = 0
        pluginsUnset == Cardinality(DOMAIN spec.Plugins) = 0
        requestCPUSet == "cpu" \in DOMAIN spec.Resources.Requests
        requestMemorySet == "memory" \in DOMAIN spec.Resources.Requests
        limitCPUSet == "cpu" \in DOMAIN spec.Resources.Limits
        limitMemorySet == "memory" \in DOMAIN spec.Resources.Limits
        resourcesUnset == ~limitCPUSet \/ ~limitMemorySet
                          \/ ~requestCPUSet \/ ~requestMemorySet
    IN  [spec |->
            [Image |-> IF imageUnset THEN DefaultJenkinsMasterImage ELSE spec.Image,
             OperatorPlugins |-> IF operatorPluginsUnset THEN BasePlugins
                                 ELSE spec.OperatorPlugins,
             Plugins |-> IF pluginsUnset THEN DefaultUserPlugins ELSE spec.Plugins,
             Resources |-> IF resourcesUnset THEN DefaultResources ELSE spec.Resources,
             SeedJobs |-> spec.SeedJobs],
         changed |-> imageUnset \/ operatorPluginsUnset \/ pluginsUnset
                     \/ resourcesUnset]

\* ------------------------------------------------------- base validation
\* dockerImageRegexp: ^[\w][\w.-]{0,127}$ on the sample images
MatchesTagRegexp(image) == image \in {"lts"}
\* docker.ReferenceRegexp (anchored name[:tag][@digest]) on the sample images
MatchesReferenceRegexp(image) ==
    image \in {"lts", "jenkins/jenkins:lts", "registry.local:5000/jenkins:2.150"}

\* plugins.New: a token parses when it has exactly the two fields name, version
New(token) ==
    IF Len(token) = 2 /\ token[1] /= "" /\ token[2] /= ""
    THEN [ok |-> TRUE, plugin |-> [Name |-> token[1], Version |-> token[2]]]
    ELSE [ok |-> FALSE, plugin |-> [Name |-> "", Version |-> ""]]

\* the dependents of one root that parse, in declaration order
RECURSIVE dependentPlugins(_)
dependentPlugins(names) ==
    IF names = <<>> THEN <<>>
    ELSE IF New(Head(names)).ok
         THEN <<New(Head(names)).plugin>> \o dependentPlugins(Tail(names))
         ELSE dependentPlugins(Tail(names))

\* the entries one declaration group writes into allPlugins
groupEntries(pluginsWithVersions) ==
    LET roots == {t \in DOMAIN pluginsWithVersions : New(t).ok}
    IN  [p \in {New(t).plugin : t \in roots} |->
            dependentPlugins(
                pluginsWithVersions[CHOOSE t \in roots : New(t).plugin = p])]

\* allPlugins after the loops of validatePlugins: allPlugins[*rootPlugin] =
\* dependentPlugins is an assignment, so a later group replaces the entry
RECURSIVE allPlugins(_)
allPlugins(pluginsWithVersionSlice) ==
    IF pluginsWithVersionSlice = <<>> THEN [p \in {} |-> <<>>]
    ELSE LET n == Len(pluginsWithVersionSlice)
         IN  groupEntries(pluginsWithVersionSlice[n])
             @@ allPlugins(SubSeq(pluginsWithVersionSlice, 1, n - 1))

\* every root and dependent token of every group parses
allTokensParse(pluginsWithVersionSlice) ==
    \A i \in DOMAIN pluginsWithVersionSlice :
        \A root \in DOMAIN pluginsWithVersionSlice[i] :
            /\ New(root).ok
            /\ \A j \in DOMAIN pluginsWithVersionSlice[i][root] :
                   New(pluginsWithVersionSlice[i][root][j]).ok

\* plugins.VerifyDependencies: no plugin name occurs with two versions
VerifyDependencies(graph) ==
    LET mentioned == DOMAIN graph
                     \cup UNION {{graph[r][j] : j \in DOMAIN graph[r]} : r \in DOMAIN graph}
    IN  \A p \in mentioned : \A q \in mentioned :
            p.Name = q.Name => p.Version = q.Version

validatePlugins(pluginsWithVersionSlice) ==
    IF allTokensParse(pluginsWithVersionSlice)
    THEN VerifyDependencies(allPlugins(pluginsWithVersionSlice))
    ELSE FALSE

\* ReconcileJenkinsBaseConfiguration.Validate; its error is always nil
base_Validate(spec) ==
    IF spec.Image = "" THEN FALSE
    ELSE IF ~MatchesTagRegexp(spec.Image) /\ ~MatchesReferenceRegexp(spec.Image)
         THEN FALSE
         ELSE IF ~validatePlugins(<<spec.OperatorPlugins, spec.Plugins>>)
              THEN FALSE
              ELSE TRUE

\* ------------------------------------------------------- user validation
\* A string that is searched is held as its pieces; key material is held as
\* its layers: <<>> is the empty string, <<"PEM", "PKCS1", "valid">> a PEM
\* block holding a PKCS#1 key that passes Validate.
Contains(s, piece) == \E i \in DOMAIN s : s[i] = piece

validatePrivateKey(privateKey) ==
    IF ~(Len(privateKey) >= 1 /\ privateKey[1] = "PEM")
    THEN "failed to decode PEM block"
    ELSE LET block == Tail(privateKey)
         IN  IF ~(Len(block) >= 1 /\ block[1] = "PKCS1")
             THEN "x509: failed to parse private key"
             ELSE IF ~(Len(block) >= 2 /\ block[2] = "valid")
                  THEN "crypto/rsa: invalid key"
                  ELSE NoError

\* the secrets of the namespace: name -> Data (key -> value)
SecretStore ==
    ("deploy-key" :> ("privateKey" :> <<"PEM", "PKCS1", "valid">>
                      @@ "garbage" :> <<"not a key">>
                      @@ "empty" :> <<>>))
    @@ ("other-key" :> ("privateKey" :> <<"PEM", "PKCS1", "broken">>))

\* k8sClient.Get of a secret; storeDown is an unreachable secret store
getSecret(name, storeDown) ==
    IF storeDown THEN [err |-> ErrInfra, Data |-> [k \in {} |-> <<>>]]
    ELSE IF name \in DOMAIN SecretStore
         THEN [err |-> NoError, Data |-> SecretStore[name]]
         ELSE [err |-> ErrNotFound, Data |-> [k \in {} |-> <<>>]]

\* the loop of validateSeedJobs treating a secret that is not found as an
\* error of the secret store
validateSeedJobNotFoundIsError(seedJob, storeDown) ==
    LET idOK == seedJob.ID /= ""
        sshOK == ~(Contains(seedJob.RepositoryURL, "git@")
                   /\ seedJob.PrivateKey.SecretKeyRef.IsNil)
    IN  IF seedJob.PrivateKey.SecretKeyRef.IsNil
        THEN [valid |-> idOK /\ sshOK, err |-> NoError]
        ELSE LET got == getSecret(seedJob.PrivateKey.SecretKeyRef.Name, storeDown)
                 key == seedJob.PrivateKey.SecretKeyRef.Key
                 privateKey == IF key \in DOMAIN got.Data THEN got.Data[key] ELSE <<>>
             IN  IF got.err /= NoError
                 THEN [valid |-> FALSE, err |-> got.err]
                 ELSE [valid |-> /\ idOK
                                 /\ sshOK
                                 /\ privateKey /= <<>>
                                 /\ validatePrivateKey(privateKey) = NoError,
                       err |-> NoError]

\* the body of the loop of validateSeedJobs for one seed job:
\* valid is the job's verdict, err the error the loop returns with
validateSeedJob(seedJob, storeDown) ==
    LET idOK == seedJob.ID /= ""
        sshOK == ~(Contains(seedJob.RepositoryURL, "git@")
                   /\ seedJob.PrivateKey.SecretKeyRef.IsNil)
    IN  IF seedJob.PrivateKey.SecretKeyRef.IsNil
        THEN [valid |-> idOK /\ sshOK, err |-> NoError]
        ELSE LET got == getSecret(seedJob.PrivateKey.SecretKeyRef.Name, storeDown)
                 key == seedJob.PrivateKey.SecretKeyRef.Key
                 privateKey == IF key \in DOMAIN got.Data THEN got.Data[key] ELSE <<>>
             IN  IF got.err /= NoError /\ got.err /= ErrNotFound
                 THEN [valid |-> FALSE, err |-> got.err]
                 ELSE [valid |-> /\ idOK
                                 /\ sshOK
                                 /\ got.err = NoError
                                 /\ privateKey /= <<>>
                                 /\ validatePrivateKey(privateKey) = NoError,
                       err |-> NoError]

\* the loop of validateSeedJobs with each seed job overwriting the verdict
RECURSIVE validateSeedJobsFromLastWins(_, _, _)
validateSeedJobsFromLastWins(seedJobs, valid, storeDown) ==
    IF seedJobs = <<>> THEN [valid |-> valid, err |-> NoError]
    ELSE LET one == validateSeedJob(Head(seedJobs), storeDown)
         IN  IF one.err /= NoError THEN [valid |-> FALSE, err |-> one.err]
             ELSE validateSeedJobsFromLastWins(Tail(seedJobs), one.valid, storeDown)

RECURSIVE validateSeedJobsFrom(_, _, _)
validateSeedJobsFrom(seedJobs, valid, storeDown) ==
    IF seedJobs = <<>> THEN [valid |-> valid, err |-> NoError]
    ELSE LET one == validateSeedJob(Head(seedJobs), storeDown)
         IN  IF one.err /= NoError THEN [valid |-> FALSE, err |-> one.err]
             ELSE validateSeedJobsFrom(Tail(seedJobs), valid /\ one.valid, storeDown)

validateSeedJobs(spec, storeDown) == validateSeedJobsFrom(spec.SeedJobs, TRUE, storeDown)

\* the seed jobs the loop of validateSeedJobs looks a secret up for: those
\* with a SecretKeyRef, in declaration order
RECURSIVE keyRefJobs(_)
keyRefJobs(seedJobs) ==
    IF seedJobs = <<>> THEN <<>>
    ELSE (IF Head(seedJobs).PrivateKey.SecretKeyRef.IsNil THEN <<>> ELSE <<Head(seedJobs)>>)
         \o keyRefJobs(Tail(seedJobs))

\* ReconcileUserConfiguration.Validate
user_Validate(spec, storeDown) ==
    LET r == validateSeedJobs(spec, storeDown)
    IN  IF ~r.valid \/ r.err /= NoError THEN r ELSE [valid |-> TRUE, err |-> NoError]

\* ------------------------------------------------------------ user phase
\* what seedJobs.EnsureSeedJobs can return: (done, err)
SeedJobOutcomes ==
    {[done |-> TRUE, err |-> NoError],
     [done |-> FALSE, err |-> NoError],
     [done |-> FALSE, err |-> ErrorBuildFailed],
     [done |-> FALSE, err |-> ErrorUnrecoverableBuildFailed],
     [done |-> FALSE, err |-> ErrInfra]}

\* ensureSeedJobs without the requeue of a build that has not finished
ensureSeedJobsPendingGoesOn(out) ==
    IF out.err /= NoError
    THEN IF out.err = ErrorBuildFailed
         THEN [result |-> [Requeue |-> TRUE, RequeueAfter |-> RequeueDelay],
               err |-> NoError]
         ELSE IF out.err = ErrorUnrecoverableBuildFailed
              THEN [result |-> ZeroResult, err |-> NoError]
              ELSE [result |-> ZeroResult, err |-> out.err]
    ELSE [result |-> ZeroResult, err |-> NoError]

\* ReconcileUserConfiguration.ensureSeedJobs on the outcome of EnsureSeedJobs
ensureSeedJobs(out) ==
    IF out.err /= NoError
    THEN IF out.err = ErrorBuildFailed
         THEN [result |-> [Requeue |-> TRUE, RequeueAfter |-> RequeueDelay],
               err |-> NoError]
         ELSE IF out.err = ErrorUnrecoverableBuildFailed
              THEN [result |-> ZeroResult, err |-> NoError]
              ELSE [result |-> ZeroResult, err |-> out.err]
    ELSE IF ~out.done
         THEN [result |-> [Requeue |-> TRUE, RequeueAfter |-> RequeueDelay],
               err |-> NoError]
         ELSE [result |-> ZeroResult, err |-> NoError]

\* what the calls of ensureUserConfiguration can return: ConfigureGroovyJob's
\* error, the error of the Get of the config map, EnsureGroovyJob's (done, err)
UserConfigurationOutcomes ==
    {[configure |-> ErrInfra, get |-> NoError, done |-> FALSE, err |-> NoError],
     [configure |-> NoError, get |-> ErrNotFound, done |-> FALSE, err |-> NoError],
     [configure |-> NoError, get |-> NoError, done |-> FALSE, err |-> ErrInfra],
     [configure |-> NoError, get |-> NoError, done |-> FALSE, err |-> NoError],
     [configure |-> NoError, get |-> NoError, done |-> TRUE, err |-> NoError]}

\* ReconcileUserConfiguration.ensureUserConfiguration
ensureUserConfiguration(out) ==
    IF out.configure /= NoError THEN [result |-> ZeroResult, err |-> out.configure]
    ELSE IF out.get /= NoError THEN [result |-> ZeroResult, err |-> out.get]
    ELSE IF out.err /= NoError THEN [result |-> ZeroResult, err |-> out.err]
    ELSE IF ~out.done
         THEN [result |-> [Requeue |-> TRUE, RequeueAfter |-> RequeueDelay],
               err |-> NoError]
         ELSE [result |-> ZeroResult, err |-> NoError]

\* what the base provisioner's Reconcile can return: (result, err)
BaseOutcomes ==
    {[result |-> ZeroResult, err |-> NoError],
     [result |-> [Requeue |-> TRUE, RequeueAfter |-> 0], err |-> NoError],
     [result |-> [Requeue |-> TRUE, RequeueAfter |-> 5], err |-> NoError],
     [result |-> ZeroResult, err |-> ErrInfra]}

\* Reconcile handing every error but a conflict on to the platform
ReconcileEscalates(result, err) ==
    IF err /= NoError /\ err = ErrConflict
    THEN [Requeue |-> TRUE, RequeueAfter |-> 0, err |-> NoError, cause |-> err]
    ELSE IF err /= NoError
         THEN [Requeue |-> FALSE, RequeueAfter |-> 0, err |-> err, cause |-> err]
         ELSE [Requeue |-> result.Requeue, RequeueAfter |-> result.RequeueAfter,
               err |-> NoError, cause |-> NoError]

\* Reconcile logging an error of reconcile without asking for a requeue
ReconcileDropsErrors(result, err) ==
    IF err /= NoError
    THEN [Requeue |-> FALSE, RequeueAfter |-> 0, err |-> NoError, cause |-> err]
    ELSE [Requeue |-> result.Requeue, RequeueAfter |-> result.RequeueAfter,
          err |-> NoError, cause |-> NoError]

\* ReconcileJenkins.Reconcile on what reconcile returned: the Result handed
\* to the platform and the error handed to it, which is always nil
Reconcile(result, err) ==
    IF err /= NoError /\ err = ErrConflict
    THEN [Requeue |-> TRUE, RequeueAfter |-> 0, err |-> NoError, cause |-> err]
    ELSE IF err /= NoError
         THEN [Requeue |-> TRUE, RequeueAfter |-> 0, err |-> NoError, cause |-> err]
         ELSE [Requeue |-> result.Requeue, RequeueAfter |-> result.RequeueAfter,
               err |-> NoError, cause |-> NoError]

\* ------------------------------------------------- decisions of reconcile
\* What reconcile does after a call returned: it returns (ret) with
\* (result, err), or goes on; events are the notifications it emits.
Event(type, reason, message) == [Type |-> type, Reason |-> reason, Message |-> message]
GoOn == [ret |-> FALSE, result |-> ZeroResult, err |-> NoError, events |-> <<>>]
Return(result, err) == [ret |-> TRUE, result |-> result, err |-> err, events |-> <<>>]

\* afterGet without the not-found branch
afterGetNotFoundIsError(getErr) ==
    IF getErr /= NoError THEN Return(ZeroResult, getErr) ELSE GoOn

\* after r.client.Get of the Jenkins object
afterGet(getErr) ==
    IF getErr /= NoError
    THEN IF getErr = ErrNotFound THEN Return(ZeroResult, NoError)
         ELSE Return(ZeroResult, getErr)
    ELSE GoOn

\* afterSetDefaults going on when the Update failed
afterSetDefaultsIgnoresError(err) == GoOn

\* after setDefaults returned err
afterSetDefaults(err) ==
    IF err /= NoError THEN Return(ZeroResult, err) ELSE GoOn

\* afterBaseValidate without the return of the invalid branch
afterBaseValidateNoReturn(valid) ==
    IF ~valid
    THEN [GoOn EXCEPT !.events =
            <<Event("Warning", reasonCRValidationFailure, "Base CR validation failed")>>]
    ELSE GoOn

\* after baseConfiguration.Validate
afterBaseValidate(valid) ==
    IF ~valid
    THEN [Return(ZeroResult, NoError) EXCEPT !.events =
            <<Event("Warning", reasonCRValidationFailure, "Base CR validation failed")>>]
    ELSE GoOn

\* after baseConfiguration.Reconcile
afterBaseReconcile(out) ==
    IF out.err /= NoError THEN Return(ZeroResult, out.err)
    ELSE IF out.result.Requeue THEN Return(out.result, NoError)
    ELSE GoOn

\* the base completion step without its guard
baseCompletionAlways(status) == TRUE

\* the guard of the base completion step
baseCompletionPending(status) == status.BaseConfigurationCompletedTime = NoTime

\* afterBaseStamp with the notification emitted before the error is looked at
afterBaseStampNotifyFirst(updateErr) ==
    IF updateErr /= NoError
    THEN [Return(ZeroResult, updateErr) EXCEPT !.events =
            <<Event("Normal", reasonBaseConfigurationSuccess, "Base configuration completed")>>]
    ELSE [GoOn EXCEPT !.events =
            <<Event("Normal", reasonBaseConfigurationSuccess, "Base configuration completed")>>]

\* after the Update that persists the base completion timestamp
afterBaseStamp(updateErr) ==
    IF updateErr /= NoError THEN Return(ZeroResult, updateErr)
    ELSE [GoOn EXCEPT !.events =
            <<Event("Normal", reasonBaseConfigurationSuccess, "Base configuration completed")>>]

\* after userConfiguration.Validate
afterUserValidate(valid, err) ==
    IF err /= NoError THEN Return(ZeroResult, err)
    ELSE IF ~valid
         THEN [Return(ZeroResult, NoError) EXCEPT !.events =
                 <<Event("Warning", reasonCRValidationFailure, "User CR validation failed")>>]
         ELSE GoOn

\* ReconcileUserConfiguration.Reconcile up to the return after ensureSeedJobs,
\* and what reconcile does with that return
afterEnsureSeedJobs(out) ==
    LET r == ensureSeedJobs(out)
    IN  IF r.err /= NoError THEN Return(ZeroResult, r.err)
        ELSE IF r.result.Requeue THEN Return(r.result, NoError)
        ELSE GoOn

\* the rest of ReconcileUserConfiguration.Reconcile, and what reconcile does
\* with its return
afterEnsureUserConfiguration(out) ==
    LET r == ensureUserConfiguration(out)
    IN  IF r.err /= NoError THEN Return(ZeroResult, r.err)
        ELSE IF r.result.Requeue THEN Return(r.result, NoError)
        ELSE GoOn

\* the user completion step without its guard
userCompletionAlways(status) == TRUE

\* the user completion step with its guard inverted
userCompletionInverted(status) == status.UserConfigurationCompletedTime /= NoTime

\* the guard of the user completion step
userCompletionPending(status) == status.UserConfigurationCompletedTime = NoTime

\* after the Update that persists the user completion timestamp
afterUserStamp(updateErr) ==
    IF updateErr /= NoError THEN Return(ZeroResult, updateErr)
    ELSE [GoOn EXCEPT !.events =
            <<Event("Normal", reasonUserConfigurationSuccess, "User configuration completed")>>]

\* ------------------------------------------------------------------ inputs
HTTPSRepositoryURL == <<"https://", "github.com/jenkinsci/kubernetes-operator.git">>
SSHRepositoryURL == <<"git@", "github.com:jenkinsci/kubernetes-operator.git">>

SeedJob(id, url, ref) == [ID |-> id, RepositoryURL |-> url, PrivateKey |-> [SecretKeyRef |-> ref]]

HTTPSSeedJob == SeedJob("jenkins-operator", HTTPSRepositoryURL, NilSecretKeyRef)

\* a Spec with nothing set but the image, the user plugins and the seed jobs
SpecWith(image, plugins, seedJobs) ==
    [Image |-> image, OperatorPlugins |-> EmptyPlugins, Plugins |-> plugins,
     Resources |-> NoResources, SeedJobs |-> seedJobs]

\* a Spec in which the user has set every field setDefaults looks at
FullSpec ==
    [Image |-> "registry.local:5000/jenkins:2.150",
     OperatorPlugins |-> (<<"kubernetes", "1.13.8">> :> <<>>),
     Plugins |-> (<<"git", "3.9.1">> :> <<>>),
     Resources |-> [Requests |-> ("cpu" :> "2" @@ "memory" :> "1Gi"),
                    Limits |-> ("cpu" :> "2" @@ "memory" :> "4Gi")],
     SeedJobs |-> <<HTTPSSeedJob>>]

\* the Specs the user creates the object with or edits it to
SpecInputs ==
    {SpecWith("jenkins/jenkins:lts", EmptyPlugins, <<HTTPSSeedJob>>),
     SpecWith("", EmptyPlugins, <<HTTPSSeedJob>>),
     SpecWith("Bad:Image", EmptyPlugins, <<HTTPSSeedJob>>),
     SpecWith("jenkins/jenkins:lts", (<<"simple-theme-plugin">> :> <<>>), <<HTTPSSeedJob>>),
     SpecWith("jenkins/jenkins:lts", EmptyPlugins,
              << SeedJob("jenkins-operator", SSHRepositoryURL, NilSecretKeyRef) >>),
     SpecWith("", EmptyPlugins,
              << SeedJob("jenkins-operator", SSHRepositoryURL,
                         SecretKeyRef("deploy-key", "privateKey")) >>),
     FullSpec}

\* the seed-job declarations of the validation inputs
SeedJobInputs ==
    {HTTPSSeedJob,
     SeedJob("", HTTPSRepositoryURL, NilSecretKeyRef),
     SeedJob("jenkins-operator", SSHRepositoryURL, NilSecretKeyRef),
     SeedJob("jenkins-operator", SSHRepositoryURL, SecretKeyRef("deploy-key", "privateKey")),
     SeedJob("", SSHRepositoryURL, SecretKeyRef("deploy-key", "privateKey")),
     SeedJob("jenkins-operator", SSHRepositoryURL, SecretKeyRef("no-such-secret", "privateKey")),
     SeedJob("jenkins-operator", SSHRepositoryURL, SecretKeyRef("deploy-key", "no-such-key")),
     SeedJob("jenkins-operator", SSHRepositoryURL, SecretKeyRef("deploy-key", "garbage")),
     SeedJob("jenkins-operator", SSHRepositoryURL, SecretKeyRef("other-key", "privateKey")),
     SeedJob("jenkins-operator", HTTPSRepositoryURL, SecretKeyRef("deploy-key", "empty"))}

\* the Specs of the validation inputs: every list of up to MaxSeedJobs declarations
SeedJobSpecInputs ==
    {SpecWith("jenkins/jenkins:lts", EmptyPlugins, seedJobs) :
        seedJobs \in UNION {[1..n -> SeedJobInputs] : n \in 0..MaxSeedJobs}}

\* the resource lists a user can set: any of cpu and memory, with these values
ResourceListInputs(cpu, memory) ==
    {[k \in keys |-> IF k = "cpu" THEN cpu ELSE memory] : keys \in SUBSET {"cpu", "memory"}}

\* the Specs of the defaulting inputs: each field setDefaults looks at set or unset
DefaultingSpecInputs ==
    {[Image |-> image, OperatorPlugins |-> operatorPlugins, Plugins |-> plugins,
      Resources |-> [Requests |-> requests, Limits |-> limits],
      SeedJobs |-> << SeedJob("jenkins-operator", SSHRepositoryURL,
                              SecretKeyRef("deploy-key", "privateKey")) >>] :
        image \in {"", FullSpec.Image},
        operatorPlugins \in {EmptyPlugins, FullSpec.OperatorPlugins},
        plugins \in {EmptyPlugins, FullSpec.Plugins},
        requests \in ResourceListInputs("2", "1Gi"),
        limits \in ResourceListInputs("2", "4Gi")}

\* the lists of dependents of the plugin inputs: two versions of one plugin
DependentInputs ==
    UNION {[1..n -> {<<"credentials", "2.1.18">>, <<"credentials", "2.1.0">>}] :
              n \in 0..MaxDependents}

\* the declaration groups of the plugin inputs: any of two roots with any of
\* the lists of dependents, a root that does not parse, a dependent that
\* does not parse
PluginGroupInputs ==
    UNION {[roots -> DependentInputs] :
              roots \in SUBSET {<<"kubernetes", "1.13.8">>, <<"git", "3.9.1">>}}
    \cup {(<<"git">> :> <<>>), (<<"git", "3.9.1">> :> << <<"credentials">> >>)}

\* the Specs of the plugin inputs: every pair of declaration groups
PluginSpecInputs ==
    {[FullSpec EXCEPT !.OperatorPlugins = operatorPlugins, !.Plugins = plugins] :
        operatorPlugins \in PluginGroupInputs, plugins \in PluginGroupInputs}

\* ------------------------------------------------------------------- state
VARIABLES
    stored,     \* the Jenkins object in the API server
    jenkins,    \* the in-memory object of the pass in progress
    fetched,    \* the object as the Get of the current (or last) pass returned it
    stale,      \* the API server object changed since the pass read it
    pc,         \* where the pass in progress stands; "idle" between passes
    queued,     \* a reconcile request for the object is in the work queue
    now,        \* the wall clock
    edits,      \* how many times the user edited the Spec
    trace,      \* the calls and notifications of the current (or last) pass
    last,       \* what Reconcile returned for the last finished pass
    emitted,    \* how many success notifications were emitted, per phase
    gaveUp,     \* EnsureSeedJobs reported an unrecoverable failure for this Spec
    persist     \* per phase, how the persists of its completion time went so far

vars == <<stored, jenkins, fetched, stale, pc, queued, now, edits, trace, last, emitted,
          gaveUp, persist>>

NoStatus == [BaseConfigurationCompletedTime |-> NoTime,
             UserConfigurationCompletedTime |-> NoTime]
BlankSpec == [Image |-> "", OperatorPlugins |-> EmptyPlugins, Plugins |-> EmptyPlugins,
              Resources |-> NoResources, SeedJobs |-> <<>>]
NoObject == [exists |-> FALSE, spec |-> BlankSpec, status |-> NoStatus]

Call(op, arg) == [op |-> op, arg |-> arg, type |-> "", reason |-> ""]
Emits(events) ==
    [i \in DOMAIN events |->
        [op |-> "Emit", arg |-> events[i].Message,
         type |-> events[i].Type, reason |-> events[i].Reason]]

Init ==
    /\ stored \in {[exists |-> TRUE, spec |-> s, status |-> NoStatus] : s \in SpecInputs}
    /\ jenkins = NoObject
    /\ fetched = NoObject
    /\ stale = FALSE
    /\ pc = "idle"
    /\ queued = TRUE
    /\ now = 1
    /\ edits = 0
    /\ trace = <<>>
    /\ last = Reconcile(ZeroResult, NoError)
    /\ emitted = [base |-> 0, user |-> 0]
    /\ gaveUp = FALSE
    /\ persist = [base |-> "none", user |-> "none"]

\* ---------------------------------------------------------- API server
\* the error of r.client.Get on the Jenkins object
getErr(fail) ==
    IF ~stored.exists THEN ErrNotFound ELSE IF fail THEN ErrInfra ELSE NoError

\* the error of r.client.Update: the object is gone, the in-memory copy has
\* an old resource version, or the call fails; a failed Update writes nothing
updateErr(fail) ==
    IF ~stored.exists THEN ErrNotFound
    ELSE IF stale THEN ErrConflict
    ELSE IF fail THEN ErrInfra
    ELSE NoError

\* the return of reconcile, through Reconcile, back to the work queue
Finish(d, requested) ==
    /\ pc' = "idle"
    /\ jenkins' = NoObject
    /\ last' = Reconcile(d.result, d.err)
    /\ queued' = (requested \/ Reconcile(d.result, d.err).Requeue)

Count(n) == IF n < MaxEvents THEN n + 1 ELSE n

\* the history of a phase's persists: "failed" while the last one failed,
\* "recovered" once one succeeded after a failure
Persisted(was, err) ==
    IF err /= NoError THEN "failed"
    ELSE IF was = "failed" THEN "recovered" ELSE was

\* ------------------------------------------------------------ the pass
\* Reconcile is invoked for a queued request; reconcile fetches the object
Fetch ==
    /\ pc = "idle"
    /\ queued
    /\ \E fail \in BOOLEAN :
        LET err == getErr(fail)
            d == afterGet(err)
        IN  /\ trace' = <<Call("Get", err)>>
            /\ stale' = FALSE
            /\ fetched' = IF err = NoError THEN stored ELSE NoObject
            /\ IF d.ret
               THEN Finish(d, FALSE)
               ELSE /\ pc' = "setDefaults"
                    /\ jenkins' = stored
                    /\ queued' = FALSE
                    /\ UNCHANGED last
    /\ UNCHANGED <<stored, now, edits, emitted, gaveUp, persist>>

\* setDefaults, and the return of reconcile when it fails
setDefaults ==
    /\ pc = "setDefaults"
    /\ LET f == setDefaultsFields(jenkins.spec)
       IN  IF f.changed
           THEN \E fail \in BOOLEAN :
                LET err == updateErr(fail)
                    d == afterSetDefaults(err)
                    obj == [jenkins EXCEPT !.spec = f.spec]
                IN  /\ trace' = Append(trace, Call("UpdateDefaults", err))
                    /\ stored' = IF err = NoError THEN obj ELSE stored
                    /\ IF d.ret
                       THEN Finish(d, queued \/ err = NoError)
                       ELSE /\ pc' = "baseValidate"
                            /\ jenkins' = obj
                            /\ queued' = (queued \/ err = NoError)
                            /\ UNCHANGED last
           ELSE /\ pc' = "baseValidate"
                /\ UNCHANGED <<stored, jenkins, queued, last, trace>>
    /\ UNCHANGED <<fetched, stale, now, edits, emitted, gaveUp, persist>>

BaseValidate ==
    /\ pc = "baseValidate"
    /\ LET valid == base_Validate(jenkins.spec)
           d == afterBaseValidate(valid)
       IN  /\ trace' = Append(trace, Call("base.Validate", IF valid THEN "valid" ELSE "invalid"))
                       \o Emits(d.events)
           /\ IF d.ret
              THEN Finish(d, queued)
              ELSE /\ pc' = "baseReconcile"
                   /\ UNCHANGED <<jenkins, queued, last>>
    /\ UNCHANGED <<stored, fetched, stale, now, edits, emitted, gaveUp, persist>>

BaseReconcile ==
    /\ pc = "baseReconcile"
    /\ \E out \in BaseOutcomes :
        LET d == afterBaseReconcile(out)
        IN  /\ trace' = Append(trace, Call("base.Reconcile",
                           IF out.err /= NoError THEN out.err
                           ELSE IF out.result.Requeue THEN "requeue" ELSE "done"))
            /\ IF d.ret
               THEN Finish(d, queued)
               ELSE /\ pc' = "baseComplete"
                    /\ UNCHANGED <<jenkins, queued, last>>
    /\ UNCHANGED <<stored, fetched, stale, now, edits, emitted, gaveUp, persist>>

\* the base completion step: stamp and persist
BaseComplete ==
    /\ pc = "baseComplete"
    /\ IF baseCompletionPending(jenkins.status)
       THEN \E fail \in BOOLEAN :
            LET err == updateErr(fail)
                d == afterBaseStamp(err)
                obj == [jenkins EXCEPT !.status.BaseConfigurationCompletedTime = now]
            IN  /\ stored' = IF err = NoError THEN obj ELSE stored
                /\ persist' = [persist EXCEPT !.base = Persisted(@, err)]
                /\ IF d.ret
                   THEN /\ trace' = Append(trace, Call("UpdateBaseTime", err))
                                   \o Emits(d.events)
                        /\ emitted' = IF d.events /= <<>>
                                      THEN [emitted EXCEPT !.base = Count(@)] ELSE emitted
                        /\ Finish(d, queued \/ err = NoError)
                   ELSE /\ trace' = Append(trace, Call("UpdateBaseTime", err))
                        /\ pc' = "baseNotify"
                        /\ jenkins' = obj
                        /\ queued' = (queued \/ err = NoError)
                        /\ UNCHANGED <<last, emitted>>
       ELSE /\ pc' = "userValidate"
            /\ UNCHANGED <<stored, jenkins, queued, last, trace, emitted, persist>>
    /\ UNCHANGED <<fetched, stale, now, edits, gaveUp>>

\* the base completion step, after the Update returned without error: notify
BaseNotify ==
    /\ pc = "baseNotify"
    /\ LET d == afterBaseStamp(NoError)
       IN  /\ trace' = trace \o Emits(d.events)
           /\ emitted' = IF d.events /= <<>>
                         THEN [emitted EXCEPT !.base = Count(@)] ELSE emitted
    /\ pc' = "userValidate"
    /\ UNCHANGED <<stored, jenkins, fetched, stale, queued, now, edits, last, gaveUp, persist>>

\* how many secrets the user validation of the pass has looked up
secretsGot == Cardinality({i \in DOMAIN trace : trace[i].op = "GetSecret"})

\* validateSeedJobs: the Get of the secret of the next seed job with a
\* SecretKeyRef, and the return of Validate and of reconcile when it fails
\* with something other than not-found
GetSecret ==
    /\ pc = "userValidate"
    /\ secretsGot < Len(keyRefJobs(jenkins.spec.SeedJobs))
    /\ \E storeDown \in BOOLEAN :
        LET seedJob == keyRefJobs(jenkins.spec.SeedJobs)[secretsGot + 1]
            got == getSecret(seedJob.PrivateKey.SecretKeyRef.Name, storeDown)
            one == validateSeedJob(seedJob, storeDown)
            d == afterUserValidate(FALSE, one.err)
        IN  IF one.err /= NoError
            THEN /\ trace' = trace \o <<Call("GetSecret", got.err),
                                         Call("user.Validate", one.err)>>
                                  \o Emits(d.events)
                 /\ Finish(d, queued)
            ELSE /\ trace' = Append(trace, Call("GetSecret", got.err))
                 /\ UNCHANGED <<pc, jenkins, queued, last>>
    /\ UNCHANGED <<stored, fetched, stale, now, edits, emitted, gaveUp, persist>>

\* the verdict of userConfiguration.Validate once every secret is looked up
UserValidate ==
    /\ pc = "userValidate"
    /\ secretsGot = Len(keyRefJobs(jenkins.spec.SeedJobs))
    /\ LET r == user_Validate(jenkins.spec, FALSE)
           d == afterUserValidate(r.valid, r.err)
       IN  /\ trace' = Append(trace, Call("user.Validate",
                                         IF r.err /= NoError THEN r.err
                                         ELSE IF r.valid THEN "valid" ELSE "invalid"))
                       \o Emits(d.events)
           /\ IF d.ret
              THEN Finish(d, queued)
              ELSE /\ pc' = "ensureSeedJobs"
                   /\ UNCHANGED <<jenkins, queued, last>>
    /\ UNCHANGED <<stored, fetched, stale, now, edits, emitted, gaveUp, persist>>

\* userConfiguration.Reconcile, first half: ensureSeedJobs
EnsureSeedJobs ==
    /\ pc = "ensureSeedJobs"
    /\ \E out \in SeedJobOutcomes :
        LET d == afterEnsureSeedJobs(out)
        IN  /\ trace' = Append(trace, Call("EnsureSeedJobs",
                           IF out.err /= NoError THEN out.err
                           ELSE IF out.done THEN "done" ELSE "pending"))
            /\ gaveUp' = (gaveUp \/ out.err = ErrorUnrecoverableBuildFailed)
            /\ IF d.ret
               THEN Finish(d, queued)
               ELSE /\ pc' = "ensureUserConfiguration"
                    /\ UNCHANGED <<jenkins, queued, last>>
    /\ UNCHANGED <<stored, fetched, stale, now, edits, emitted, persist>>

\* userConfiguration.Reconcile, second half: ensureUserConfiguration, one
\* step per call; first groovyClient.ConfigureGroovyJob
ConfigureGroovyJob ==
    /\ pc = "ensureUserConfiguration"
    /\ \E out \in UserConfigurationOutcomes :
        LET d == afterEnsureUserConfiguration(out)
        IN  /\ trace' = Append(trace, Call("ConfigureGroovyJob", out.configure))
            /\ IF out.configure /= NoError
               THEN Finish(d, queued)
               ELSE /\ pc' = "getConfigMap"
                    /\ UNCHANGED <<jenkins, queued, last>>
    /\ UNCHANGED <<stored, fetched, stale, now, edits, emitted, gaveUp, persist>>

\* ensureUserConfiguration: the Get of the user configuration config map
GetConfigMap ==
    /\ pc = "getConfigMap"
    /\ \E out \in UserConfigurationOutcomes :
        LET d == afterEnsureUserConfiguration(out)
        IN  /\ out.configure = NoError
            /\ trace' = Append(trace, Call("GetConfigMap", out.get))
            /\ IF out.get /= NoError
               THEN Finish(d, queued)
               ELSE /\ pc' = "ensureGroovyJob"
                    /\ UNCHANGED <<jenkins, queued, last>>
    /\ UNCHANGED <<stored, fetched, stale, now, edits, emitted, gaveUp, persist>>

\* ensureUserConfiguration: groovyClient.EnsureGroovyJob and the return
EnsureGroovyJob ==
    /\ pc = "ensureGroovyJob"
    /\ \E out \in UserConfigurationOutcomes :
        LET d == afterEnsureUserConfiguration(out)
        IN  /\ out.configure = NoError
            /\ out.get = NoError
            /\ trace' = Append(trace, Call("EnsureGroovyJob",
                                          IF out.err /= NoError THEN out.err
                                          ELSE IF out.done THEN "done" ELSE "pending"))
            /\ IF d.ret
               THEN Finish(d, queued)
               ELSE /\ pc' = "userComplete"
                    /\ UNCHANGED <<jenkins, queued, last>>
    /\ UNCHANGED <<stored, fetched, stale, now, edits, emitted, gaveUp, persist>>

\* the user completion step: stamp and persist; the final return when the
\* phase is stamped already
UserComplete ==
    /\ pc = "userComplete"
    /\ IF userCompletionPending(jenkins.status)
       THEN \E fail \in BOOLEAN :
            LET err == updateErr(fail)
                d == afterUserStamp(err)
                obj == [jenkins EXCEPT !.status.UserConfigurationCompletedTime = now]
            IN  /\ stored' = IF err = NoError THEN obj ELSE stored
                /\ persist' = [persist EXCEPT !.user = Persisted(@, err)]
                /\ IF d.ret
                   THEN /\ trace' = Append(trace, Call("UpdateUserTime", err))
                                   \o Emits(d.events)
                        /\ emitted' = IF d.events /= <<>>
                                      THEN [emitted EXCEPT !.user = Count(@)] ELSE emitted
                        /\ Finish(d, queued \/ err = NoError)
                   ELSE /\ trace' = Append(trace, Call("UpdateUserTime", err))
                        /\ pc' = "userNotify"
                        /\ jenkins' = obj
                        /\ queued' = (queued \/ err = NoError)
                        /\ UNCHANGED <<last, emitted>>
       ELSE /\ Finish(Return(ZeroResult, NoError), queued)
            /\ UNCHANGED <<stored, trace, emitted, persist>>
    /\ UNCHANGED <<fetched, stale, now, edits, gaveUp>>

\* the user completion step, after the Update returned without error:
\* notify, and the final return
UserNotify ==
    /\ pc = "userNotify"
    /\ LET d == afterUserStamp(NoError)
       IN  /\ trace' = trace \o Emits(d.events)
           /\ emitted' = IF d.events /= <<>>
                         THEN [emitted EXCEPT !.user = Count(@)] ELSE emitted
    /\ Finish(Return(ZeroResult, NoError), queued)
    /\ UNCHANGED <<stored, fetched, stale, now, edits, gaveUp, persist>>

\* ------------------------------------------------------- the environment
\* the user replaces the Spec of the object
UserEditsSpec ==
    /\ stored.exists
    /\ edits < MaxEdits
    /\ \E s \in SpecInputs \ {stored.spec} : stored' = [stored EXCEPT !.spec = s]
    /\ edits' = edits + 1
    /\ stale' = (pc /= "idle")
    /\ queued' = TRUE
    /\ gaveUp' = FALSE
    /\ UNCHANGED <<jenkins, fetched, pc, now, trace, last, emitted, persist>>

\* the object is deleted
DeleteObject ==
    /\ stored.exists
    /\ stored' = NoObject
    /\ stale' = (pc /= "idle")
    /\ queued' = TRUE
    /\ UNCHANGED <<jenkins, fetched, pc, now, edits, trace, last, emitted, gaveUp, persist>>

\* a watched Pod, Secret or ConfigMap changes: the object is enqueued
WatchEvent ==
    /\ ~queued
    /\ queued' = TRUE
    /\ UNCHANGED <<stored, jenkins, fetched, stale, pc, now, edits, trace, last, emitted,
                   gaveUp, persist>>

\* time passes; only the clock values that a persisted timestamp holds can be
\* told apart, so the clock moves on from those
Tick ==
    /\ stored.exists
    /\ now \in {stored.status.BaseConfigurationCompletedTime,
               stored.status.UserConfigurationCompletedTime}
    /\ now' = now + 1
    /\ UNCHANGED <<stored, jenkins, fetched, stale, pc, queued, edits, trace, last, emitted,
                   gaveUp, persist>>

Next ==
    \/ Fetch
    \/ setDefaults
    \/ BaseValidate
    \/ BaseReconcile
    \/ BaseComplete
    \/ BaseNotify
    \/ GetSecret
    \/ UserValidate
    \/ EnsureSeedJobs
    \/ ConfigureGroovyJob
    \/ GetConfigMap
    \/ EnsureGroovyJob
    \/ UserComplete
    \/ UserNotify
    \/ UserEditsSpec
    \/ DeleteObject
    \/ WatchEvent
    \/ Tick

Spec == Init /\ [][Next]_vars

\* ------------------------------------------- the pass up to user validation
\* The object is created with one of the validation inputs and is not edited
\* or deleted; passes run up to the verdict of user validation.
ValidationInit ==
    /\ stored \in {[exists |-> TRUE, spec |-> s, status |-> NoStatus] : s \in SeedJobSpecInputs}
    /\ jenkins = NoObject
    /\ fetched = NoObject
    /\ stale = FALSE
    /\ pc = "idle"
    /\ queued = TRUE
    /\ now = 1
    /\ edits = 0
    /\ trace = <<>>
    /\ last = Reconcile(ZeroResult, NoError)
    /\ emitted = [base |-> 0, user |-> 0]
    /\ gaveUp = FALSE
    /\ persist = [base |-> "none", user |-> "none"]

ValidationNext ==
    \/ Fetch
    \/ setDefaults
    \/ BaseValidate
    \/ BaseReconcile
    \/ BaseComplete
    \/ BaseNotify
    \/ GetSecret
    \/ UserValidate

ValidationSpec == ValidationInit /\ [][ValidationNext]_vars

\* ------------------------------------------ the passes of a partly set Spec
\* The object is created with one of the defaulting inputs and is not edited
\* or deleted.
DefaultingInit ==
    /\ stored \in {[exists |-> TRUE, spec |-> s, status |-> NoStatus] :
                      s \in DefaultingSpecInputs}
    /\ jenkins = NoObject
    /\ fetched = NoObject
    /\ stale = FALSE
    /\ pc = "idle"
    /\ queued = TRUE
    /\ now = 1
    /\ edits = 0
    /\ trace = <<>>
    /\ last = Reconcile(ZeroResult, NoError)
    /\ emitted = [base |-> 0, user |-> 0]
    /\ gaveUp = FALSE
    /\ persist = [base |-> "none", user |-> "none"]

DefaultingNext ==
    \/ Fetch
    \/ setDefaults
    \/ BaseValidate
    \/ BaseReconcile
    \/ BaseComplete
    \/ BaseNotify
    \/ GetSecret
    \/ UserValidate
    \/ EnsureSeedJobs
    \/ ConfigureGroovyJob
    \/ GetConfigMap
    \/ EnsureGroovyJob
    \/ UserComplete
    \/ UserNotify

DefaultingSpec == DefaultingInit /\ [][DefaultingNext]_vars

\* ------------------------------------- the loop under transient failures
\* Two valid Specs: one with every field set, one that needs defaulting and
\* whose seed job has a deploy key in the secret store
ValidSpecInputs ==
    {FullSpec,
     SpecWith("", EmptyPlugins,
              << SeedJob("jenkins-operator", SSHRepositoryURL,
                         SecretKeyRef("deploy-key", "privateKey")) >>)}

TransientInit ==
    /\ stored \in {[exists |-> TRUE, spec |-> s, status |-> NoStatus] : s \in ValidSpecInputs}
    /\ jenkins = NoObject
    /\ fetched = NoObject
    /\ stale = FALSE
    /\ pc = "idle"
    /\ queued = TRUE
    /\ now = 1
    /\ edits = 0
    /\ trace = <<>>
    /\ last = Reconcile(ZeroResult, NoError)
    /\ emitted = [base |-> 0, user |-> 0]
    /\ gaveUp = FALSE
    /\ persist = [base |-> "none", user |-> "none"]

\* the calls the step adds to the trace
NewCalls == IF pc = "idle" THEN trace' ELSE SubSeq(trace', Len(trace) + 1, Len(trace'))
\* the call failed or reported not-done, for another reason than a conflict
\* with a concurrent write
NotDone(call) ==
    call.op /= "Emit" /\ call.arg \notin {NoError, "done", "valid", "invalid", ErrConflict}
\* collaborators fail or report not-done only before Horizon
Transient == (\E i \in DOMAIN NewCalls : NotDone(NewCalls[i])) => now < Horizon

\* a step of the pass in progress, or the start of the pass of a queued request
PassStep ==
    \/ Fetch /\ Transient
    \/ setDefaults /\ Transient
    \/ BaseValidate /\ Transient
    \/ BaseReconcile /\ Transient
    \/ BaseComplete /\ Transient
    \/ BaseNotify /\ Transient
    \/ GetSecret /\ Transient
    \/ UserValidate /\ Transient
    \/ EnsureSeedJobs /\ Transient
    \/ ConfigureGroovyJob /\ Transient
    \/ GetConfigMap /\ Transient
    \/ EnsureGroovyJob /\ Transient
    \/ UserComplete /\ Transient
    \/ UserNotify /\ Transient

\* another client writes the object while a pass holds a copy of it: the
\* resource version moves on and the object is enqueued; the Spec stays valid
ConcurrentWrite ==
    /\ pc /= "idle"
    /\ ~stale
    /\ now < Horizon
    /\ stale' = TRUE
    /\ queued' = TRUE
    /\ UNCHANGED <<stored, jenkins, fetched, pc, now, edits, trace, last, emitted, gaveUp,
                   persist>>

\* time passes up to Horizon; the clock is read between passes
Elapse ==
    /\ pc = "idle"
    /\ now < Horizon
    /\ now' = now + 1
    /\ UNCHANGED <<stored, jenkins, fetched, stale, pc, queued, edits, trace, last, emitted,
                   gaveUp, persist>>

TransientNext ==
    \/ PassStep
    \/ ConcurrentWrite
    \/ Elapse

\* the worker runs every queued request and every pass to its return, and
\* time passes between the passes
TransientSpec ==
    TransientInit /\ [][TransientNext]_vars /\ WF_vars(PassStep) /\ SF_vars(Elapse)

\* -------------------------------------------- the pass up to base validation
\* The object is created with one of the plugin inputs and is not edited or
\* deleted; passes run up to the verdict of base validation.
PluginInit ==
    /\ stored \in {[exists |-> TRUE, spec |-> s, status |-> NoStatus] : s \in PluginSpecInputs}
    /\ jenkins = NoObject
    /\ fetched = NoObject
    /\ stale = FALSE
    /\ pc = "idle"
    /\ queued = TRUE
    /\ now = 1
    /\ edits = 0
    /\ trace = <<>>
    /\ last = Reconcile(ZeroResult, NoError)
    /\ emitted = [base |-> 0, user |-> 0]
    /\ gaveUp = FALSE
    /\ persist = [base |-> "none", user |-> "none"]

PluginNext ==
    \/ Fetch
    \/ setDefaults
    \/ BaseValidate

PluginSpec == PluginInit /\ [][PluginNext]_vars

\* ------------------------------------------------- vocabulary of the claims
\* the current (or last) pass made the call op
Did(op) == \E i \in DOMAIN trace : trace[i].op = op
\* the current (or last) pass made the call op and it returned arg
Returned(op, arg) == \E i \in DOMAIN trace : trace[i].op = op /\ trace[i].arg = arg
\* the call op of the current (or last) pass failed
Failed(op) == \E i \in DOMAIN trace : trace[i].op = op /\ trace[i].arg /= NoError
\* the notifications of the current (or last) pass with this message
Notifications(message) ==
    {i \in DOMAIN trace : trace[i].op = "Emit" /\ trace[i].arg = message}
\* the warning notifications of the current (or last) pass
Warnings == {i \in DOMAIN trace : trace[i].op = "Emit" /\ trace[i].type = "Warning"}
\* a pass has run and is over
PassOver == pc = "idle" /\ trace /= <<>>
\* the pass is over and Reconcile returned requeue=false, no error
ReturnedDone == PassOver /\ ~last.Requeue /\ last.RequeueAfter = 0 /\ last.err = NoError

\* ------------------------------------------------------------------ claims

\* C1: whenever seed-job ensure reports the unrecoverable-failure sentinel, the
\* pass is terminal done (requeue=false, no error) and the scripted user
\* configuration step is not run in that pass.
C1_UnrecoverableEndsThePass ==
    Returned("EnsureSeedJobs", ErrorUnrecoverableBuildFailed) =>
        /\ ~Did("ConfigureGroovyJob")
        /\ ~Did("EnsureGroovyJob")
        /\ PassOver => (~last.Requeue /\ last.err = NoError)

\* C2: a completion timestamp is persisted only in a pass in which the
\* provisioner of its phase signalled completion; no pass in which seed-job
\* ensure reported a recoverable or unrecoverable failure persists the
\* user-phase timestamp or emits the user-phase success notification.
C2_StampOnlyAfterCompletion ==
    /\ Returned("UpdateBaseTime", NoError) => Returned("base.Reconcile", "done")
    /\ Returned("UpdateUserTime", NoError) =>
           Returned("EnsureSeedJobs", "done") /\ Returned("EnsureGroovyJob", "done")
    /\ (Returned("EnsureSeedJobs", ErrorBuildFailed)
        \/ Returned("EnsureSeedJobs", ErrorUnrecoverableBuildFailed)) =>
           /\ ~Returned("UpdateUserTime", NoError)
           /\ Notifications("User configuration completed") = {}

\* C3: after a pass in which seed-job ensure reported an unrecoverable failure,
\* no later pass calls seed-job ensure again while the Spec is not edited.
C3_NoRetryAfterUnrecoverable ==
    [][gaveUp => ~(pc = "ensureSeedJobs" /\ pc' /= "ensureSeedJobs")]_vars

\* C4: whenever seed-job ensure reports the recoverable-failure sentinel or
\* done=false without error, the pass returns requeue=true with a delay of
\* exactly 10 seconds and no error, and neither runs the scripted user
\* configuration nor stamps the user-phase timestamp.
C4_RecoverableOrPendingRequeues ==
    (Returned("EnsureSeedJobs", ErrorBuildFailed) \/ Returned("EnsureSeedJobs", "pending")) =>
        /\ PassOver
        /\ last.Requeue
        /\ last.RequeueAfter = 10
        /\ last.err = NoError
        /\ last.cause = NoError
        /\ ~Did("ConfigureGroovyJob")
        /\ ~Did("EnsureGroovyJob")
        /\ ~Did("UpdateUserTime")
        /\ Notifications("User configuration completed") = {}

C4_Witness ==
    /\ PassOver
    /\ Returned("EnsureSeedJobs", ErrorBuildFailed)
    /\ last.Requeue

\* C5 as the spec states it, for the passes whose Update of the defaulted Spec
\* succeeds: for an object whose Spec has an empty image, reconcile returns no
\* error, emits a CRValidationFailure warning, does not requeue, and does not
\* run the base provisioner.
C5_EmptyImageFailsValidation ==
    (PassOver /\ fetched.exists /\ fetched.spec.Image = "" /\ ~Failed("UpdateDefaults")) =>
        /\ ReturnedDone
        /\ \E i \in Warnings : trace[i].reason = reasonCRValidationFailure
        /\ ~Did("base.Reconcile")

\* C5 amended: base validation rejects a Spec with an empty image, but a pass
\* never validates one: setDefaults replaces the empty image by the default
\* image and persists it before validation. When that persist fails the pass
\* returns requeue=true with no delay and no error, emits nothing and runs
\* neither validation nor the base provisioner; when it succeeds, validation
\* and every later step see the default image.
C5_EmptyImageIsDefaulted ==
    (fetched.exists /\ fetched.spec.Image = "") =>
        /\ ~base_Validate(fetched.spec)
        /\ pc \notin {"idle", "setDefaults"} =>
               jenkins.spec.Image = DefaultJenkinsMasterImage
        /\ pc /= "setDefaults" => Did("UpdateDefaults")
        /\ Did("base.Validate") => Returned("UpdateDefaults", NoError)
        /\ Failed("UpdateDefaults") =>
               /\ PassOver
               /\ last.Requeue /\ last.RequeueAfter = 0 /\ last.err = NoError
               /\ Notifications("Base CR validation failed") = {}
               /\ Warnings = {}
               /\ ~Did("base.Validate")
               /\ ~Did("base.Reconcile")

C5_Witness ==
    /\ fetched.exists
    /\ fetched.spec.Image = ""
    /\ pc = "baseComplete"
    /\ Returned("base.Validate", "valid")
    /\ Returned("base.Reconcile", "done")

\* C6: each phase-completion success notification is emitted exactly once per
\* object: the pass that persists a phase's completion timestamp emits the
\* notification as its next step, and no pass emits it once the timestamp is
\* persisted. Between the persist and the notification the pass stands at
\* baseNotify (userNotify).
C6_SuccessNotifiedExactlyOnce ==
    /\ [](/\ emitted.base <= 1
          /\ emitted.user <= 1
          /\ stored.exists =>
                /\ emitted.base = 1 =>
                       stored.status.BaseConfigurationCompletedTime /= NoTime
                /\ emitted.user = 1 =>
                       stored.status.UserConfigurationCompletedTime /= NoTime
                /\ (stored.status.BaseConfigurationCompletedTime /= NoTime
                    /\ pc /= "baseNotify") => emitted.base = 1
                /\ (stored.status.UserConfigurationCompletedTime /= NoTime
                    /\ pc /= "userNotify") => emitted.user = 1
          /\ pc = "baseNotify" => (emitted.base = 0 /\ Returned("UpdateBaseTime", NoError))
          /\ pc = "userNotify" => (emitted.user = 0 /\ Returned("UpdateUserTime", NoError))
          /\ Returned("UpdateBaseTime", NoError) <=>
                (pc = "baseNotify"
                 \/ Cardinality(Notifications("Base configuration completed")) = 1)
          /\ Returned("UpdateUserTime", NoError) <=>
                (pc = "userNotify"
                 \/ Cardinality(Notifications("User configuration completed")) = 1)
          /\ Cardinality(Notifications("Base configuration completed")) <= 1
          /\ Cardinality(Notifications("User configuration completed")) <= 1)
    /\ [][/\ (pc = "baseNotify" /\ pc' /= pc) =>
                 /\ emitted'.base = 1
                 /\ Cardinality(Notifications("Base configuration completed"))' = 1
          /\ (pc = "userNotify" /\ pc' /= pc) =>
                 /\ emitted'.user = 1
                 /\ Cardinality(Notifications("User configuration completed"))' = 1
          /\ emitted'.base /= emitted.base => pc = "baseNotify"
          /\ emitted'.user /= emitted.user => pc = "userNotify"
         ]_vars

\* both phases were completed by an earlier pass, and a later pass ran to its end
C6_Witness ==
    /\ ReturnedDone
    /\ emitted = [base |-> 1, user |-> 1]
    /\ Returned("EnsureGroovyJob", "done")
    /\ ~Did("UpdateBaseTime")
    /\ ~Did("UpdateUserTime")

\* C7: once a phase-completion timestamp is in the persisted Status, no pass
\* changes or clears it, and the completion step of an already stamped phase
\* does nothing: no stamp, no update, no notification.
C7_StampedTimeNeverChanges ==
    [][/\ (stored.exists /\ stored'.exists
           /\ stored.status.BaseConfigurationCompletedTime /= NoTime) =>
              stored'.status.BaseConfigurationCompletedTime
                  = stored.status.BaseConfigurationCompletedTime
       /\ (stored.exists /\ stored'.exists
           /\ stored.status.UserConfigurationCompletedTime /= NoTime) =>
              stored'.status.UserConfigurationCompletedTime
                  = stored.status.UserConfigurationCompletedTime
       /\ (pc = "baseComplete" /\ pc' /= pc
           /\ jenkins.status.BaseConfigurationCompletedTime /= NoTime) =>
              (trace' = trace /\ stored' = stored /\ emitted' = emitted)
       /\ (pc = "userComplete" /\ pc' /= pc
           /\ jenkins.status.UserConfigurationCompletedTime /= NoTime) =>
              (trace' = trace /\ stored' = stored /\ emitted' = emitted)
      ]_vars

\* a pass went through the user completion step of an object stamped earlier
C7_Witness ==
    /\ ReturnedDone
    /\ Returned("EnsureGroovyJob", "done")
    /\ ~Did("UpdateUserTime")
    /\ stored.exists
    /\ stored.status.UserConfigurationCompletedTime /= NoTime
    /\ stored.status.UserConfigurationCompletedTime < now

\* C8: if persisting a freshly stamped completion timestamp fails, the pass
\* emits no success notification for the phase and returns for a requeue, the
\* persisted Status still has the timestamp unset, and the next pass that
\* reaches the completion step attempts the stamp and persist again.
C8_FailedPersistIsRetried ==
    /\ [](/\ Failed("UpdateBaseTime") =>
                /\ Notifications("Base configuration completed") = {}
                /\ PassOver /\ last.Requeue /\ last.err = NoError
                /\ persist.base = "failed"
          /\ Failed("UpdateUserTime") =>
                /\ Notifications("User configuration completed") = {}
                /\ PassOver /\ last.Requeue /\ last.err = NoError
                /\ persist.user = "failed"
          /\ (persist.base = "failed" /\ stored.exists) =>
                 stored.status.BaseConfigurationCompletedTime = NoTime
          /\ (persist.user = "failed" /\ stored.exists) =>
                 stored.status.UserConfigurationCompletedTime = NoTime)
    /\ [][/\ (pc = "baseComplete" /\ pc' /= pc /\ persist.base = "failed") =>
                 Did("UpdateBaseTime")'
          /\ (pc = "userComplete" /\ pc' /= pc /\ persist.user = "failed") =>
                 Did("UpdateUserTime")'
         ]_vars

\* the persist of the base timestamp failed in an earlier pass and succeeded
\* in this one, which went on to fail the persist of the user timestamp
C8_Witness ==
    /\ persist.base = "recovered"
    /\ Returned("UpdateBaseTime", NoError)
    /\ Cardinality(Notifications("Base configuration completed")) = 1
    /\ Failed("UpdateUserTime")
    /\ persist.user = "failed"

\* C9: when base or user validation reports valid=false without error, the pass
\* emits one CRValidationFailure warning, returns requeue=false and no error,
\* and runs no later phase.
C9_InvalidSpecEndsThePass ==
    /\ Returned("base.Validate", "invalid") =>
           /\ ReturnedDone
           /\ Cardinality(Warnings) = 1
           /\ \A i \in Warnings : /\ trace[i].reason = "CRValidationFailure"
                                  /\ trace[i].arg = "Base CR validation failed"
           /\ ~Did("base.Reconcile")
           /\ ~Did("user.Validate")
           /\ ~Did("EnsureSeedJobs")
           /\ ~Did("ConfigureGroovyJob")
    /\ Returned("user.Validate", "invalid") =>
           /\ ReturnedDone
           /\ Cardinality(Warnings) = 1
           /\ \A i \in Warnings : /\ trace[i].reason = "CRValidationFailure"
                                  /\ trace[i].arg = "User CR validation failed"
           /\ ~Did("EnsureSeedJobs")
           /\ ~Did("ConfigureGroovyJob")

C9_Witness ==
    /\ PassOver
    /\ Returned("base.Reconcile", "done")
    /\ Returned("user.Validate", "invalid")

\* the Spec of end-to-end scenario 2: a valid image, no plugins declared, one
\* seed job with an HTTPS URL and no key
Scenario2(spec) ==
    /\ spec.Image = "jenkins/jenkins:lts"
    /\ spec.OperatorPlugins = EmptyPlugins
    /\ spec.Plugins = EmptyPlugins
    /\ Len(spec.SeedJobs) = 1
    /\ ~Contains(spec.SeedJobs[1].RepositoryURL, "git@")
    /\ spec.SeedJobs[1].PrivateKey.SecretKeyRef.IsNil

\* the pass of scenario 2: the base provisioner reported completion, seed-job
\* ensure and the scripted configuration reported done=true
Scenario2Pass ==
    /\ PassOver
    /\ fetched.exists
    /\ Scenario2(fetched.spec)
    /\ Returned("base.Reconcile", "done")
    /\ Returned("EnsureSeedJobs", "done")
    /\ Returned("EnsureGroovyJob", "done")

BothTimesPersisted ==
    /\ stored.status.BaseConfigurationCompletedTime /= NoTime
    /\ stored.status.UserConfigurationCompletedTime /= NoTime

\* C10 as the spec states it: the pass of scenario 2 returns requeue=false and
\* no error and leaves both completion timestamps in the persisted Status.
C10_Scenario2Completes ==
    Scenario2Pass =>
        /\ ReturnedDone
        /\ stored.exists => BothTimesPersisted

\* C10 amended: the pass of scenario 2 ends in one of two ways, decided by the
\* persist of the user-phase completion timestamp, the one step of the pass
\* the scenario's premises leave open. When that persist does not fail (or the
\* timestamp was persisted by an earlier pass) the pass returns requeue=false
\* and no error, and both completion timestamps are in the persisted Status.
\* When it fails the pass returns requeue=true with no delay and no error,
\* emits no user-phase notification, and the persisted Status holds the
\* base-phase timestamp and no user-phase timestamp. The persisted Status is
\* that of the object while it exists: a deletion removes it.
C10_Scenario2CompletesOrRetries ==
    Scenario2Pass =>
        /\ ~Failed("UpdateUserTime") =>
               /\ ReturnedDone
               /\ last.cause = NoError
               /\ stored.exists => BothTimesPersisted
        /\ Failed("UpdateUserTime") =>
               /\ last.Requeue /\ last.RequeueAfter = 0 /\ last.err = NoError
               /\ last.cause /= NoError
               /\ Notifications("User configuration completed") = {}
               /\ stored.exists =>
                      /\ stored.status.BaseConfigurationCompletedTime /= NoTime
                      /\ stored.status.UserConfigurationCompletedTime = NoTime

\* the pass of scenario 2 whose persist of the user-phase timestamp failed
C10_RetryWitness ==
    /\ Scenario2Pass
    /\ Failed("UpdateUserTime")
    /\ last.Requeue
    /\ stored.exists

\* a single pass on the fresh object of scenario 2 went from defaulting to both stamps
C10_Witness ==
    /\ Scenario2Pass
    /\ Returned("UpdateDefaults", NoError)
    /\ Returned("UpdateBaseTime", NoError)
    /\ Returned("UpdateUserTime", NoError)
    /\ ReturnedDone
    /\ stored.exists
    /\ BothTimesPersisted

\* the calls of a pass whose error reconcile returns: every call but the Get
\* answered not-found and the seed-job ensure answered with a sentinel
ErrorRaised ==
    \/ \E i \in DOMAIN trace :
          /\ trace[i].op \in {"UpdateDefaults", "UpdateBaseTime", "UpdateUserTime",
                              "ConfigureGroovyJob", "GetConfigMap"}
          /\ trace[i].arg /= NoError
    \/ \E i \in DOMAIN trace :
          /\ trace[i].op \in {"Get", "base.Reconcile", "user.Validate", "EnsureSeedJobs",
                              "EnsureGroovyJob"}
          /\ trace[i].arg = ErrInfra

\* C11: every error raised inside a pass, in particular a resource-version
\* conflict on the Update of defaulting or of a completion timestamp, ends the
\* pass with Reconcile returning requeue=true, zero delay and a nil error;
\* Reconcile never returns a non-nil error; and the pass that retries starts
\* from a fresh Get of the object, which every Update of the pass follows.
C11_ErrorsRequeueWithoutError ==
    /\ [](/\ last.err = NoError
          /\ ErrorRaised =>
                /\ PassOver
                /\ last.Requeue /\ last.RequeueAfter = 0 /\ last.err = NoError
                /\ last.cause /= NoError
          /\ (PassOver /\ last.cause /= NoError) => ErrorRaised
          /\ (Returned("UpdateDefaults", ErrConflict) \/ Returned("UpdateBaseTime", ErrConflict)
              \/ Returned("UpdateUserTime", ErrConflict)) => last.cause = ErrConflict
          /\ pc = "idle" => jenkins = NoObject
          /\ (Did("UpdateDefaults") \/ Did("UpdateBaseTime") \/ Did("UpdateUserTime")) =>
                trace[1] = Call("Get", NoError))
    /\ [][/\ (pc = "idle" /\ pc' /= "idle") =>
                 (jenkins' = stored /\ fetched' = stored /\ ~stale'
                  /\ trace' = <<Call("Get", NoError)>>)
          /\ (pc = "idle" /\ trace' /= trace) => (Len(trace') = 1 /\ trace'[1].op = "Get")
         ]_vars

\* the persist of the base completion timestamp met a resource-version conflict
C11_Witness ==
    /\ PassOver
    /\ Returned("UpdateBaseTime", ErrConflict)
    /\ last.Requeue
    /\ last.RequeueAfter = 0
    /\ last.cause = ErrConflict

\* C12: when the Get of the object answers not-found, the pass ends there:
\* Reconcile returns requeue=false and no error, and the pass makes no Update,
\* calls no validator or provisioner and emits no notification. This holds
\* for every pass, so also for the one after a deletion in mid-pass.
C12_NotFoundEndsThePass ==
    /\ [](Returned("Get", ErrNotFound) =>
            /\ ReturnedDone
            /\ last.cause = NoError
            /\ trace = <<Call("Get", ErrNotFound)>>
            /\ fetched = NoObject)
    /\ [][(pc = "idle" /\ trace' /= trace /\ ~stored.exists) =>
             /\ Returned("Get", ErrNotFound)'
             /\ pc' = "idle"
             /\ ~queued'
             /\ stored' = stored
             /\ emitted' = emitted
             /\ persist' = persist
         ]_vars

\* the object was deleted after the base phase was stamped and while the
\* persist of the user timestamp had failed; the next pass found it gone
C12_Witness ==
    /\ PassOver
    /\ ~stored.exists
    /\ Returned("Get", ErrNotFound)
    /\ emitted.base = 1
    /\ persist.user = "failed"
    /\ ~queued

\* what the user validation of the current (or last) pass returned: "valid",
\* "invalid" or its error
UserVerdict == trace[CHOOSE i \in DOMAIN trace : trace[i].op = "user.Validate"].arg
\* a Get of a secret failed with something other than not-found
SecretStoreFailed ==
    \E i \in DOMAIN trace :
        trace[i].op = "GetSecret" /\ trace[i].arg \notin {NoError, ErrNotFound}
\* the seed-job declarations the pass validated
Declared == fetched.spec.SeedJobs
\* the private-key reference of the declaration
KeyRef(seedJob) == seedJob.PrivateKey.SecretKeyRef
NamesMissingSecret(seedJob) ==
    ~KeyRef(seedJob).IsNil /\ KeyRef(seedJob).Name \notin DOMAIN SecretStore
EmptyID(seedJob) == seedJob.ID = ""
SSHWithoutKey(seedJob) ==
    KeyRef(seedJob).IsNil /\ \E i \in DOMAIN seedJob.RepositoryURL :
                                seedJob.RepositoryURL[i] = "git@"
\* the referenced secret exists, holds the named key, and the key is a PEM
\* block with a PKCS#1 RSA key that is valid
KeyIsGood(seedJob) ==
    /\ KeyRef(seedJob).Name \in DOMAIN SecretStore
    /\ KeyRef(seedJob).Key \in DOMAIN SecretStore[KeyRef(seedJob).Name]
    /\ SecretStore[KeyRef(seedJob).Name][KeyRef(seedJob).Key] = <<"PEM", "PKCS1", "valid">>
\* the per-declaration rule
SeedJobRule(seedJob) ==
    /\ ~EmptyID(seedJob)
    /\ ~SSHWithoutKey(seedJob)
    /\ ~KeyRef(seedJob).IsNil => KeyIsGood(seedJob)

\* C13: user validation returns an error only when a Get of a secret failed
\* with something other than not-found, and then it returns that error;
\* otherwise a declaration whose key reference names a secret that does not
\* exist, and every declaration that breaks the rule (empty id, SSH URL
\* without key, missing, empty or unparsable key), makes it return
\* valid=false with a nil error.
C13_ErrorOnlyWhenStoreFails ==
    Did("user.Validate") =>
        /\ UserVerdict \notin {"valid", "invalid"} <=> SecretStoreFailed
        /\ SecretStoreFailed => Returned("GetSecret", UserVerdict)
        /\ (\E i \in DOMAIN Declared : NamesMissingSecret(Declared[i])) =>
               /\ UserVerdict /= "valid"
               /\ ~SecretStoreFailed =>
                      (UserVerdict = "invalid" /\ Returned("GetSecret", ErrNotFound))
        /\ (\E i \in DOMAIN Declared : ~SeedJobRule(Declared[i])) =>
               /\ UserVerdict /= "valid"
               /\ ~SecretStoreFailed => UserVerdict = "invalid"
        /\ UserVerdict = "invalid" =>
               (PassOver /\ last.err = NoError /\ last.cause = NoError)

\* a declaration names a secret that does not exist, the store answered
\* not-found, and validation returned valid=false without error
C13_Witness ==
    /\ PassOver
    /\ Did("user.Validate")
    /\ \E i \in DOMAIN Declared : NamesMissingSecret(Declared[i])
    /\ Returned("GetSecret", ErrNotFound)
    /\ UserVerdict = "invalid"
    /\ last.cause = NoError

\* C14: when no Get of a secret fails with something other than not-found,
\* the verdict of user validation is the conjunction of the per-declaration
\* rule over all declarations; every declaration is evaluated (each key
\* reference is looked up) even after an earlier one failed; and a declaration
\* with an empty id or with an SSH URL and no key reference makes the verdict
\* valid=false whatever the other fields and declarations are.
C14_VerdictIsConjunction ==
    (Did("user.Validate") /\ ~SecretStoreFailed) =>
        /\ UserVerdict = "valid" <=> \A i \in DOMAIN Declared : SeedJobRule(Declared[i])
        /\ UserVerdict = "invalid" <=> \E i \in DOMAIN Declared : ~SeedJobRule(Declared[i])
        /\ Cardinality({i \in DOMAIN trace : trace[i].op = "GetSecret"})
               = Cardinality({i \in DOMAIN Declared : ~KeyRef(Declared[i]).IsNil})
        /\ (\E i \in DOMAIN Declared : EmptyID(Declared[i]) \/ SSHWithoutKey(Declared[i])) =>
               UserVerdict = "invalid"

\* the first declaration breaks the rule, the second has a key reference that
\* was looked up and is good, and the verdict is valid=false
C14_Witness ==
    /\ Did("user.Validate")
    /\ Len(Declared) = 2
    /\ EmptyID(Declared[1])
    /\ KeyRef(Declared[1]).IsNil
    /\ SeedJobRule(Declared[2])
    /\ Returned("GetSecret", NoError)
    /\ UserVerdict = "invalid"

\* C15: every pass in which seed-job ensure reports an unrecoverable failure
\* emits a warning notification on the object by the time it is over.
C15_UnrecoverableIsNotified ==
    (PassOver /\ Returned("EnsureSeedJobs", ErrorUnrecoverableBuildFailed)) => Warnings /= {}

\* the place of a call in the order fetch, default, validate(base),
\* provision(base), validate(user), provision(user: seed jobs, then scripted
\* configuration); the persists of the completion timestamps close their phase
StepRank(op) ==
    CASE op = "Get" -> 1
      [] op = "UpdateDefaults" -> 2
      [] op = "base.Validate" -> 3
      [] op = "base.Reconcile" -> 4
      [] op = "UpdateBaseTime" -> 5
      [] op \in {"GetSecret", "user.Validate"} -> 6
      [] op = "EnsureSeedJobs" -> 7
      [] op \in {"ConfigureGroovyJob", "GetConfigMap", "EnsureGroovyJob"} -> 8
      [] op = "UpdateUserTime" -> 9
      [] OTHER -> 0
\* the calls of the current (or last) pass, without its notifications
Steps == {i \in DOMAIN trace : trace[i].op /= "Emit"}
StepsInOrder ==
    \A i \in Steps : \A j \in Steps :
        i < j => StepRank(trace[i].op) <= StepRank(trace[j].op)
EarlierStepsSucceeded ==
    /\ Did("UpdateDefaults") => Returned("Get", NoError)
    /\ Did("base.Validate") => (Returned("Get", NoError) /\ ~Failed("UpdateDefaults"))
    /\ Did("base.Reconcile") => Returned("base.Validate", "valid")
    /\ Did("user.Validate") =>
           (Returned("base.Reconcile", "done") /\ ~Failed("UpdateBaseTime"))
    /\ Did("EnsureSeedJobs") => Returned("user.Validate", "valid")

\* C16: within every pass the steps run in the order fetch, default,
\* validate(base), provision(base), validate(user), provision(user: seed jobs
\* then scripted configuration), and a step runs only if every earlier step
\* of the pass succeeded; the scripted configuration runs only after seed-job
\* ensure completed.
C16_StepsInOrderAfterSuccess ==
    /\ StepsInOrder
    /\ EarlierStepsSucceeded
    /\ Did("ConfigureGroovyJob") => Returned("EnsureSeedJobs", "done")

\* the part of C16 that does not depend on what seed-job ensure reported
C16_OrderUpToSeedJobs ==
    /\ StepsInOrder
    /\ EarlierStepsSucceeded
    /\ Did("ConfigureGroovyJob") => Did("EnsureSeedJobs")

\* the Spec has every field setDefaults looks at
Defaulted(spec) ==
    /\ spec.Image /= ""
    /\ DOMAIN spec.OperatorPlugins /= {}
    /\ DOMAIN spec.Plugins /= {}
    /\ DOMAIN spec.Resources.Requests = {"cpu", "memory"}
    /\ DOMAIN spec.Resources.Limits = {"cpu", "memory"}
\* the pass is at base validation or at a later step
PastDefaulting == pc \notin {"idle", "setDefaults"}

\* C17: whenever base validation or a later step of a pass runs, the Spec it
\* sees has a non-empty image, non-empty operator and user plugin sets and all
\* four CPU and memory requests and limits, and that Spec has been persisted:
\* it is the Spec the Get returned, or the Update of setDefaults wrote it to
\* the API server without error. A failed Update ends the pass before validation.
C17_NoStepOnUnderDefaultedSpec ==
    /\ [](/\ PastDefaulting =>
                /\ Defaulted(jenkins.spec)
                /\ ~Did("UpdateDefaults") => jenkins.spec = fetched.spec
                /\ Did("UpdateDefaults") =>
                       (~Defaulted(fetched.spec) /\ Returned("UpdateDefaults", NoError))
          /\ Failed("UpdateDefaults") =>
                /\ PassOver
                /\ last.Requeue
                /\ Len(trace) = 2
          /\ Did("base.Validate") =>
                (Defaulted(fetched.spec) \/ Returned("UpdateDefaults", NoError)))
    /\ [][(pc = "setDefaults" /\ pc' = "baseValidate" /\ trace' /= trace) =>
               (stored'.exists /\ stored'.spec = jenkins'.spec /\ Defaulted(stored'.spec))
         ]_vars

\* the user set only the CPU request; the defaulted Spec was persisted and the
\* pass has reached the scripted configuration
C17_Witness ==
    /\ pc = "ensureUserConfiguration"
    /\ DOMAIN fetched.spec.Resources.Requests = {"cpu"}
    /\ DOMAIN fetched.spec.Resources.Limits = {}
    /\ fetched.spec.Image /= ""
    /\ Returned("UpdateDefaults", NoError)
    /\ Defaulted(jenkins.spec)

\* C18: for a valid Spec, when every requeue is followed by another pass and
\* the collaborators fail or report not-done only finitely often (conflicts,
\* failed updates, recoverable build failures, pending builds), eventually a
\* pass returns requeue=false without error with both completion timestamps
\* persisted.
C18_EventuallyCompletes ==
    <>(ReturnedDone /\ stored.exists /\ BothTimesPersisted)

\* the persists of both timestamps failed in earlier passes, and a later pass
\* returned done with both timestamps persisted
C18_Witness ==
    /\ ReturnedDone
    /\ stored.exists
    /\ BothTimesPersisted
    /\ persist = [base |-> "recovered", user |-> "recovered"]

\* every entry the user set in the resource list is there with its value
KeptEntries(before, after) ==
    \A k \in DOMAIN before : k \in DOMAIN after /\ after[k] = before[k]

\* C19: setDefaults only fills unset fields: the image, the operator plugin
\* set and the user plugin set, when the user set them, and each CPU or memory
\* request or limit the user set, have the same value after setDefaults as in
\* the object the pass fetched, also when only some of the four are set.
C19_DefaultingKeepsSetFields ==
    (fetched.exists /\ PastDefaulting) =>
        /\ fetched.spec.Image /= "" => jenkins.spec.Image = fetched.spec.Image
        /\ DOMAIN fetched.spec.OperatorPlugins /= {} =>
               jenkins.spec.OperatorPlugins = fetched.spec.OperatorPlugins
        /\ DOMAIN fetched.spec.Plugins /= {} => jenkins.spec.Plugins = fetched.spec.Plugins
        /\ KeptEntries(fetched.spec.Resources.Requests, jenkins.spec.Resources.Requests)
        /\ KeptEntries(fetched.spec.Resources.Limits, jenkins.spec.Resources.Limits)

\* what holds of C19: the image and the plugin sets the user set are kept, and
\* so are the requests and limits when the user set all four of them
C19_KeptUnlessSomeResourceUnset ==
    (fetched.exists /\ PastDefaulting) =>
        /\ fetched.spec.Image /= "" => jenkins.spec.Image = fetched.spec.Image
        /\ DOMAIN fetched.spec.OperatorPlugins /= {} =>
               jenkins.spec.OperatorPlugins = fetched.spec.OperatorPlugins
        /\ DOMAIN fetched.spec.Plugins /= {} => jenkins.spec.Plugins = fetched.spec.Plugins
        /\ (/\ DOMAIN fetched.spec.Resources.Requests = {"cpu", "memory"}
            /\ DOMAIN fetched.spec.Resources.Limits = {"cpu", "memory"}) =>
               jenkins.spec.Resources = fetched.spec.Resources
        /\ jenkins.spec.SeedJobs = fetched.spec.SeedJobs

\* the two declaration groups base validation of the pass is called with:
\* those of the fetched Spec once defaulted
DeclaredGroups ==
    << setDefaultsFields(fetched.spec).spec.OperatorPlugins,
       setDefaultsFields(fetched.spec).spec.Plugins >>
\* the graph has the edge from the root to the dependent
HasEdge(graph, root, dependent) ==
    /\ root \in DOMAIN graph
    /\ \E k \in DOMAIN graph[root] : graph[root][k] = dependent

\* C20: when all tokens parse, the graph base validation hands to
\* VerifyDependencies has every (root, dependent) pair declared in the
\* operator group or in the user group, also when the same root is declared
\* in both groups with different dependents.
C20_GraphHasEveryDeclaredPair ==
    (Did("base.Validate") /\ allTokensParse(DeclaredGroups)) =>
        \A g \in DOMAIN DeclaredGroups :
            \A root \in DOMAIN DeclaredGroups[g] :
                /\ New(root).plugin \in DOMAIN allPlugins(DeclaredGroups)
                /\ \A j \in DOMAIN DeclaredGroups[g][root] :
                       HasEdge(allPlugins(DeclaredGroups), New(root).plugin,
                               New(DeclaredGroups[g][root][j]).plugin)

\* what holds of C20: every declared root is in the graph, with every pair of
\* the user group, and with every pair of the operator group whose root the
\* user group does not declare
C20_LaterGroupWins ==
    (Did("base.Validate") /\ allTokensParse(DeclaredGroups)) =>
        \A g \in DOMAIN DeclaredGroups :
            \A root \in DOMAIN DeclaredGroups[g] :
                /\ New(root).plugin \in DOMAIN allPlugins(DeclaredGroups)
                /\ (g = 2 \/ root \notin DOMAIN DeclaredGroups[2]) =>
                       \A j \in DOMAIN DeclaredGroups[g][root] :
                           HasEdge(allPlugins(DeclaredGroups), New(root).plugin,
                                   New(DeclaredGroups[g][root][j]).plugin)

====
